---- MODULE Spec2Model ----
(***************************************************************************)
(* Solar Power Predictor (app.py): a Streamlit script.  Every user         *)
(* interaction of a browser session re-runs the whole script in that       *)
(* session's own thread: the script calls the cached load_artifacts,       *)
(* catches its failure into model_loaded, reads the six form widgets and,  *)
(* when the predict button was clicked, scales the record, predicts,       *)
(* converts units, picks a condition label and renders the result.         *)
(*                                                                         *)
(* Units.  The form's floats lie on the widgets' grids and are kept as     *)
(* integers counting grid steps from zero: distance_to_solar_noon in       *)
(* hundredths of a radian (0.3 is 30), temperature and visibility in       *)
(* halves, wind_speed in tenths.  The prediction and the values derived    *)
(* from it are binary floating-point numbers with a Precision-bit          *)
(* significand, rounded to nearest, ties to even, as Python's / and * do.  *)
(***************************************************************************)
EXTENDS Integers, Sequences, FiniteSets

\* ---------------------------------------------------------------- bounds
NumSessions == 2
Precision == 8
MaxCount == 2

Sessions == 1..NumSessions

\* ------------------------------------------------------------ the form
DistanceMin == 0
DistanceMax == 160
SkyCoverOptions == {0, 1, 2, 3, 4}

DefaultForm ==
    [distance_to_solar_noon |-> 30, temperature |-> 50, sky_cover |-> 0,
     visibility |-> 20, humidity |-> 45, wind_speed |-> 35]

\* The requests the sessions of Spec choose among: the defaults, a clear noon
\* and an overcast evening.
FormPresets ==
    { DefaultForm,
      [distance_to_solar_noon |-> 29, temperature |-> 60, sky_cover |-> 0,
       visibility |-> 40, humidity |-> 20, wind_speed |-> 10],
      [distance_to_solar_noon |-> 121, temperature |-> 10, sky_cover |-> 3,
       visibility |-> 5, humidity |-> 90, wind_speed |-> 120] }

\* Every slider position of distance_to_solar_noon and every sky_cover option,
\* with the default and the maximum of the other four widgets.
FormSpace ==
    [distance_to_solar_noon : DistanceMin..DistanceMax,
     temperature : {50, 120}, sky_cover : SkyCoverOptions,
     visibility : {20, 40}, humidity : {45, 100}, wind_speed : {35, 200}]

\* ------------------------------------------------------ floating point
Float(m, e) == [m |-> m, e |-> e]
FZero == Float(0, 0)

Abs(n) == IF n < 0 THEN -n ELSE n
Sign(n) == IF n < 0 THEN -1 ELSE IF n > 0 THEN 1 ELSE 0

RECURSIVE OddPart(_)
OddPart(d) == IF d % 2 = 0 THEN OddPart(d \div 2) ELSE d

RECURSIVE TwoPart(_)
TwoPart(d) == IF d % 2 = 0 THEN 1 + TwoPart(d \div 2) ELSE 0

\* The float nearest to sgn * (num / den) * 2^e, for num, den > 0.
RECURSIVE RoundRatio(_, _, _, _)
RoundRatio(sgn, num, den, e) ==
    IF num < den * 2^(Precision - 1) THEN RoundRatio(sgn, 2 * num, den, e - 1)
    ELSE IF num >= den * 2^Precision THEN RoundRatio(sgn, num, 2 * den, e + 1)
    ELSE LET q == num \div den
             r == num % den
             up == (2 * r > den) \/ (2 * r = den /\ q % 2 = 1)
             m == IF up THEN q + 1 ELSE q
         IN  IF m = 2^Precision
             THEN Float(sgn * 2^(Precision - 1), e + 1)
             ELSE Float(sgn * m, e)

FloatOfInt(n) == IF n = 0 THEN FZero ELSE RoundRatio(Sign(n), Abs(n), 1, 0)

\* x / d and x * k for a float x and a positive integer literal.
FDivInt(x, d) ==
    IF x.m = 0 THEN FZero
    ELSE RoundRatio(Sign(x.m), Abs(x.m), OddPart(d), x.e - TwoPart(d))

FMulInt(x, k) ==
    IF x.m = 0 THEN FZero
    ELSE RoundRatio(Sign(x.m), Abs(x.m) * OddPart(k), 1, x.e + TwoPart(k))

\* ----------------------------------------------------- artifact files
\* What a pickle file can hold.  The fitted objects are opaque to the script;
\* each is represented by the parameters its inference routine uses.
ScalerStd == [n_features_in |-> 6, mean |-> <<50, 58, 2, 19, 73, 101>>]
ScalerMisfit == [n_features_in |-> 5, mean |-> <<50, 58, 2, 19, 73>>]
ModelXgb == [n_features_in |-> 6, base |-> 60,
             weight |-> <<-2, 1, -40, 1, -1, 1>>]
ModelMisfit == [n_features_in |-> 5, base |-> 60,
                weight |-> <<-2, 1, -40, 1, -1>>]

\* A file's state: <<>> when the file is absent, else <<the pickled object>>.
Absent == <<>>
FileStates ==
    { [model_pkl |-> Absent, scaler_pkl |-> Absent],
      [model_pkl |-> <<ModelXgb>>, scaler_pkl |-> Absent],
      [model_pkl |-> Absent, scaler_pkl |-> <<ScalerStd>>],
      [model_pkl |-> <<ModelXgb>>, scaler_pkl |-> <<ScalerStd>>],
      [model_pkl |-> <<ModelXgb>>, scaler_pkl |-> <<ScalerMisfit>>],
      [model_pkl |-> <<ModelMisfit>>, scaler_pkl |-> <<ScalerStd>>] }

\* ------------------------------------------------------------- state
VARIABLES
    files,            \* the two pickle files beside app.py
    heap,             \* the (model, scaler) pairs load_artifacts has returned
    cache,            \* st.cache_resource's entry: an index of heap, 0 when empty
    lock,             \* st.cache_resource's compute lock: its holder, 0 when free
    loadCalls,        \* runs of load_artifacts' body (file reads), up to MaxCount
    loadsFailed,      \* runs of the body that raised, up to MaxCount
    pc,               \* each session's place in its script run
    ns,               \* each session's script namespace for the run
    invoked,          \* each run's calls of scaler.transform and model.predict
    page              \* the elements each session's run has rendered

vars == <<files, heap, cache, lock, loadCalls, loadsFailed, pc, ns, invoked,
          page>>

Inc(n) == IF n < MaxCount THEN n + 1 ELSE n

\* A run's namespace before line 155.  An unbound name is <<>> and a bound one
\* <<its value>>; artifacts is the heap index of (model, scaler), 0 when those
\* two names are unbound; model_loaded is read only after line 160 has set it
\* and predict_clicked only after line 210.  form holds the six widget values
\* of lines 177-205 under the names the script gives them.
FreshNamespace ==
    [model_loaded |-> FALSE, artifacts |-> 0, loading |-> <<>>,
     form |-> <<>>, predict_clicked |-> FALSE, input_df |-> <<>>,
     input_scaled |-> <<>>, prediction |-> <<>>, kwh |-> <<>>,
     condition |-> <<>>]

\* The elements a run has rendered: the loader's st.error, the predict
\* branch's st.error, the runtime's display of an uncaught exception, and the
\* result box with the values handed to its format specifications.
EmptyPage ==
    [load_error |-> FALSE, predict_error |-> FALSE, exception |-> FALSE,
     result |-> <<>>]

\* ------------------------------------------------- the script's pieces
JoblibLoadRaises(content) == content = Absent
JoblibLoad(content) == content[1]

\* Fault: the first two columns in the other order.
SwappedInputDf(w) ==
    << << <<"temperature", w.temperature>>,
          <<"distance_to_solar_noon", w.distance_to_solar_noon>>,
          <<"sky_cover", w.sky_cover>>,
          <<"visibility", w.visibility>>,
          <<"humidity", w.humidity>>,
          <<"wind_speed", w.wind_speed>> >> >>

\* input_df: one row, the six columns in the order the dict literal gives.
BuildInputDf(w) ==
    << << <<"distance_to_solar_noon", w.distance_to_solar_noon>>,
          <<"temperature", w.temperature>>,
          <<"sky_cover", w.sky_cover>>,
          <<"visibility", w.visibility>>,
          <<"humidity", w.humidity>>,
          <<"wind_speed", w.wind_speed>> >> >>

\* scaler.transform: by column position; raises on a record of another width.
ScalerRaisesOn(scaler, df) == Len(df[1]) # scaler.n_features_in

ScalerTransform(scaler, df) ==
    [i \in 1..Len(df) |->
        [j \in 1..Len(df[i]) |-> df[i][j][2] - scaler.mean[j]]]

\* model.predict: one float per row; raises on a record of another width.
ModelRaisesOn(model, X) == Len(X[1]) # model.n_features_in

RECURSIVE Dot(_, _, _)
Dot(w, x, j) == IF j = 0 THEN 0 ELSE w[j] * x[j] + Dot(w, x, j - 1)

ModelPredict(model, X) ==
    [i \in 1..Len(X) |->
        FloatOfInt(model.base + Dot(model.weight, X[i], Len(X[i])))]

\* Fault: a negative prediction clamped to zero.
ClampedPrediction(y) == IF y[1].m < 0 THEN FZero ELSE y[1]

\* Line 223's [0]: the first element of what model.predict returned.
RawPrediction(y) == y[1]

\* Fault: the scaler refitted on the request (fit instead of transform).
RefitOnRequest(pair, df) ==
    [pair EXCEPT !.scaler.mean =
        [j \in 1..Len(pair.scaler.mean) |-> df[1][j][2]]]

\* transform and predict read the shared pair and leave it as it was.
ArtifactsAfterInference(pair, df) == pair

JoulesPerKwh == 3600000
JoulesPerKilojoule == 1000
PeriodsPerDay == 8

Kwh(prediction) == FDivInt(prediction, JoulesPerKwh)
Kilojoules(prediction) == FDivInt(prediction, JoulesPerKilojoule)
KwhPerDay(kwh) == FMulInt(kwh, PeriodsPerDay)

IdealNoonLimit == 30
LowSkyCover == 3
LowNoonLimit == 120

\* Fault: <= for < in the first test.
ConditionLabelInclusive(sky_cover, distance_to_solar_noon) ==
    IF sky_cover = 0 /\ distance_to_solar_noon <= IdealNoonLimit THEN "IDEAL"
    ELSE IF sky_cover >= LowSkyCover \/ distance_to_solar_noon > LowNoonLimit
         THEN "LOW"
         ELSE "MODERATE"

ConditionLabel(sky_cover, distance_to_solar_noon) ==
    IF sky_cover = 0 /\ distance_to_solar_noon < IdealNoonLimit THEN "IDEAL"
    ELSE IF sky_cover >= LowSkyCover \/ distance_to_solar_noon > LowNoonLimit
         THEN "LOW"
         ELSE "MODERATE"

\* Fault: the branch of line 212 taken without the flag.
CanPredictUnguarded(clicked, loaded) == clicked

\* Lines 212 and 273.

CanPredict(clicked, loaded) == clicked /\ loaded
Rejected(clicked, loaded) == clicked /\ ~loaded

\* st.cache_resource (line 149): the entry is looked up without the lock; a
\* miss is computed under the compute lock after a second look; a value is
\* stored, an exception is not.
\* Fault: the function not cached at all.
CacheMiss(s) == FALSE

CacheHit(s) == cache # 0

\* Fault: a memo without the compute lock.
LockIgnored(s) == TRUE

LockAvailable(s) == lock = 0

\* ------------------------------------------------------------ actions
Init ==
    /\ files \in FileStates
    /\ heap = <<>>
    /\ cache = 0
    /\ lock = 0
    /\ loadCalls = 0
    /\ loadsFailed = 0
    /\ pc = [s \in Sessions |-> "idle"]
    /\ ns = [s \in Sessions |-> FreshNamespace]
    /\ invoked = [s \in Sessions |-> <<>>]
    /\ page = [s \in Sessions |-> EmptyPage]

\* Someone puts, replaces or removes a pickle file.
ChangeFiles ==
    /\ \E f \in FileStates : f # files /\ files' = f
    /\ UNCHANGED <<heap, cache, lock, loadCalls, loadsFailed, pc, ns, invoked,
                   page>>

\* A page load, a widget change or a click of the predict button: the runtime
\* starts a script run of the session (lines 1-146 render no state).
UserInteract(s) ==
    /\ pc[s] = "idle"
    /\ pc' = [pc EXCEPT ![s] = "load"]
    /\ UNCHANGED <<files, heap, cache, lock, loadCalls, loadsFailed, ns,
                   invoked, page>>

\* load_artifacts() returned the cached pair: lines 156-157.
ReturnCached(s) ==
    /\ ns' = [ns EXCEPT ![s].artifacts = cache, ![s].model_loaded = TRUE]
    /\ pc' = [pc EXCEPT ![s] = "form"]

\* Fault: the except branch leaves the flag true.
CatchLoadErrorAsLoaded(s) ==
    /\ ns' = [ns EXCEPT ![s].model_loaded = TRUE, ![s].loading = <<>>]
    /\ page' = [page EXCEPT ![s].load_error = TRUE]
    /\ loadsFailed' = Inc(loadsFailed)
    /\ lock' = 0
    /\ pc' = [pc EXCEPT ![s] = "form"]

\* load_artifacts() raised: lines 158-160.
CatchLoadError(s) ==
    /\ ns' = [ns EXCEPT ![s].model_loaded = FALSE, ![s].loading = <<>>]
    /\ page' = [page EXCEPT ![s].load_error = TRUE]
    /\ loadsFailed' = Inc(loadsFailed)
    /\ lock' = 0
    /\ pc' = [pc EXCEPT ![s] = "form"]

\* Line 156, the cached function's first look at its cache, without the lock.
CacheLookup(s) ==
    /\ pc[s] = "load"
    /\ IF CacheHit(s)
       THEN ReturnCached(s)
       ELSE pc' = [pc EXCEPT ![s] = "lock"] /\ ns' = ns
    /\ UNCHANGED <<files, heap, cache, lock, loadCalls, loadsFailed, invoked,
                   page>>

\* On a miss the cached function takes its compute lock and looks again; on a
\* second miss it enters the body of load_artifacts holding the lock.
AcquireLock(s) ==
    /\ pc[s] = "lock"
    /\ LockAvailable(s)
    /\ IF CacheHit(s)
       THEN ReturnCached(s) /\ UNCHANGED <<lock, loadCalls>>
       ELSE /\ lock' = s
            /\ loadCalls' = Inc(loadCalls)
            /\ pc' = [pc EXCEPT ![s] = "model"]
            /\ ns' = ns
    /\ UNCHANGED <<files, heap, cache, loadsFailed, invoked, page>>

\* Line 151: joblib.load("model.pkl").
ReadModel(s) ==
    /\ pc[s] = "model"
    /\ IF JoblibLoadRaises(files.model_pkl)
       THEN CatchLoadError(s)
       ELSE /\ ns' = [ns EXCEPT ![s].loading = <<JoblibLoad(files.model_pkl)>>]
            /\ pc' = [pc EXCEPT ![s] = "scaler"]
            /\ UNCHANGED <<lock, loadsFailed, page>>
    /\ UNCHANGED <<files, heap, cache, loadCalls, invoked>>

\* Lines 152-153 and 156-157: joblib.load("scaler.pkl"), the pair is returned,
\* cached, and bound to model, scaler.
ReadScaler(s) ==
    /\ pc[s] = "scaler"
    /\ IF JoblibLoadRaises(files.scaler_pkl)
       THEN CatchLoadError(s) /\ UNCHANGED <<heap, cache>>
       ELSE /\ Len(heap) < MaxCount
            /\ heap' = Append(heap, [model |-> ns[s].loading[1],
                                     scaler |-> JoblibLoad(files.scaler_pkl)])
            /\ cache' = Len(heap) + 1
            /\ lock' = 0
            /\ ns' = [ns EXCEPT ![s].artifacts = Len(heap) + 1,
                                ![s].model_loaded = TRUE,
                                ![s].loading = <<>>]
            /\ pc' = [pc EXCEPT ![s] = "form"]
            /\ UNCHANGED <<loadsFailed, page>>
    /\ UNCHANGED <<files, loadCalls, invoked>>

\* Lines 222-223 on the pair the names model, scaler are bound to: the calls
\* made, whether one raised, and the values obtained.
Inference(pair, df) ==
    IF ScalerRaisesOn(pair.scaler, df)
    THEN [raised |-> TRUE, input_scaled |-> <<>>, prediction |-> <<>>,
          calls |-> << [fn |-> "scaler.transform", arg |-> df, out |-> <<>>] >>]
    ELSE LET X == ScalerTransform(pair.scaler, df)
         IN  IF ModelRaisesOn(pair.model, X)
             THEN [raised |-> TRUE, input_scaled |-> <<X>>, prediction |-> <<>>,
                   calls |-> << [fn |-> "scaler.transform", arg |-> df,
                                 out |-> X],
                                [fn |-> "model.predict", arg |-> X,
                                 out |-> <<>>] >>]
             ELSE LET y == ModelPredict(pair.model, X)
                  IN  [raised |-> FALSE, input_scaled |-> <<X>>,
                       prediction |-> <<RawPrediction(y)>>,
                       calls |-> << [fn |-> "scaler.transform", arg |-> df,
                                     out |-> X],
                                    [fn |-> "model.predict", arg |-> X,
                                     out |-> y] >>]

\* Lines 239-261 and 264-271: the result box and the input summary.
ResultBox(condition, prediction, kwh, input_df) ==
    [condition |-> condition, prediction |-> prediction, kwh |-> kwh,
     kilojoules |-> Kilojoules(prediction), kwh_per_day |-> KwhPerDay(kwh),
     input_summary |-> input_df]

\* Lines 174-274 with the widgets holding w and the button clicked or not.
\* An exception of lines 213-271 is caught nowhere in the script: the run ends
\* there and the runtime shows the exception.
PredictWith(s, w, clicked) ==
    LET df == BuildInputDf(w)
        n == [ns[s] EXCEPT !.form = <<w>>, !.predict_clicked = clicked]
    IN  IF CanPredict(clicked, n.model_loaded)
        THEN IF n.artifacts = 0
             THEN \* NameError: name 'scaler' is not defined
                  /\ ns' = [ns EXCEPT ![s] = [n EXCEPT !.input_df = <<df>>]]
                  /\ page' = [page EXCEPT ![s].exception = TRUE]
                  /\ UNCHANGED <<heap, invoked>>
             ELSE LET pair == heap[n.artifacts]
                      r == Inference(pair, df)
                  IN  /\ invoked' = [invoked EXCEPT ![s] = r.calls]
                      /\ heap' = [heap EXCEPT ![n.artifacts] =
                                     ArtifactsAfterInference(pair, df)]
                      /\ IF r.raised
                         THEN /\ ns' = [ns EXCEPT ![s] = [n EXCEPT
                                   !.input_df = <<df>>,
                                   !.input_scaled = r.input_scaled]]
                              /\ page' = [page EXCEPT ![s].exception = TRUE]
                         ELSE LET prediction == r.prediction[1]
                                  kwh == Kwh(prediction)
                                  condition ==
                                      ConditionLabel(w.sky_cover,
                                          w.distance_to_solar_noon)
                              IN  /\ ns' = [ns EXCEPT ![s] = [n EXCEPT
                                       !.input_df = <<df>>,
                                       !.input_scaled = r.input_scaled,
                                       !.prediction = <<prediction>>,
                                       !.kwh = <<kwh>>,
                                       !.condition = <<condition>>]]
                                  /\ page' = [page EXCEPT ![s].result =
                                       <<ResultBox(condition, prediction,
                                                   kwh, df)>>]
        ELSE /\ IF Rejected(clicked, n.model_loaded)
                THEN page' = [page EXCEPT ![s].predict_error = TRUE]
                ELSE page' = page
             /\ ns' = [ns EXCEPT ![s] = n]
             /\ UNCHANGED <<heap, invoked>>

\* The rest of a run, lines 162-295, for a user who chose among `forms`.
PredictAmong(s, forms) ==
    /\ pc[s] = "form"
    /\ \E w \in forms, clicked \in BOOLEAN : PredictWith(s, w, clicked)
    /\ pc' = [pc EXCEPT ![s] = "done"]
    /\ UNCHANGED <<files, cache, lock, loadCalls, loadsFailed>>

PredictBranch(s) == PredictAmong(s, FormPresets)

\* The run is over: its namespace is dropped, and with it the record of what
\* the run called and rendered.
EndRun(s) ==
    /\ pc[s] = "done"
    /\ pc' = [pc EXCEPT ![s] = "idle"]
    /\ ns' = [ns EXCEPT ![s] = FreshNamespace]
    /\ invoked' = [invoked EXCEPT ![s] = <<>>]
    /\ page' = [page EXCEPT ![s] = EmptyPage]
    /\ UNCHANGED <<files, heap, cache, lock, loadCalls, loadsFailed>>

Next ==
    \/ ChangeFiles
    \/ \E s \in Sessions :
          \/ UserInteract(s)
          \/ CacheLookup(s)
          \/ AcquireLock(s)
          \/ ReadModel(s)
          \/ ReadScaler(s)
          \/ PredictBranch(s)
          \/ EndRun(s)

Spec == Init /\ [][Next]_vars

\* ------------------------------------------- the form's whole range
\* One run that has bound a loaded pair (line 157) and is about to read the
\* widgets, for a user who may have set any value of FormSpace.
InitForm ==
    /\ files = [model_pkl |-> <<ModelXgb>>, scaler_pkl |-> <<ScalerStd>>]
    /\ heap = << [model |-> ModelXgb, scaler |-> ScalerStd] >>
    /\ cache = 1
    /\ lock = 0
    /\ loadCalls = 1
    /\ loadsFailed = 0
    /\ pc = [s \in Sessions |-> IF s = 1 THEN "form" ELSE "idle"]
    /\ ns = [s \in Sessions |->
               IF s = 1
               THEN [FreshNamespace EXCEPT !.model_loaded = TRUE,
                                           !.artifacts = 1]
               ELSE FreshNamespace]
    /\ invoked = [s \in Sessions |-> <<>>]
    /\ page = [s \in Sessions |-> EmptyPage]

PredictAnyForm(s) == PredictAmong(s, FormSpace)

NextForm == \E s \in Sessions : PredictAnyForm(s) \/ EndRun(s)

SpecForm == InitForm /\ [][NextForm]_vars

\* ====================================================== the claims
Bound(s) == pc[s] \in {"form", "done"}
InBody(s) == pc[s] \in {"model", "scaler"}
Showing(s) == pc[s] = "done" /\ page[s].result # <<>>
FormOf(s) == ns[s].form[1]
ResultOf(s) == page[s].result[1]

\* ---- C1 (under SpecForm)
\* C1: the label of a rendered result is IDEAL exactly when sky_cover is 0 and
\* distance_to_solar_noon is below 0.3 (30 hundredths, strictly), else LOW
\* exactly when sky_cover is at least 3 or the distance is above 1.2, else
\* MODERATE: one label, fixed by these two fields whatever the other four
\* fields and the prediction are.
C1_LabelByPriority ==
    \A s \in Sessions :
        Showing(s) =>
            LET sky == FormOf(s).sky_cover
                d == FormOf(s).distance_to_solar_noon
                label == ResultOf(s).condition
                ideal == sky = 0 /\ d < 30
                low == sky >= 3 \/ d > 120
            IN  /\ label \in {"IDEAL", "LOW", "MODERATE"}
                /\ ns[s].condition = <<label>>
                /\ (label = "IDEAL") = ideal
                /\ (label = "LOW") = (~ideal /\ low)
                /\ (label = "MODERATE") = (~ideal /\ ~low)

\* A result at the boundary: sky_cover 0 and distance 0.30 is not IDEAL.
C1_Witness ==
    \E s \in Sessions :
        /\ Showing(s)
        /\ FormOf(s).sky_cover = 0
        /\ FormOf(s).distance_to_solar_noon = 30
        /\ ResultOf(s).condition = "MODERATE"

\* ---- C2
C2_Degraded ==
    \A s \in Sessions :
        (Bound(s) /\ ~ns[s].model_loaded) =>
            /\ page[s].load_error
            /\ ~page[s].exception
            /\ page[s].result = <<>>
            /\ invoked[s] = <<>>
            /\ (pc[s] = "done" /\ ns[s].predict_clicked) =>
                   page[s].predict_error

C2_LoaderStep ==
    \A s \in Sessions :
        ( /\ \/ pc[s] = "model" /\ files.model_pkl = Absent
             \/ pc[s] = "scaler" /\ files.scaler_pkl = Absent
          /\ pc'[s] # pc[s] ) =>
            /\ pc'[s] = "form"
            /\ ~ns'[s].model_loaded
            /\ page'[s].load_error
            /\ ~page'[s].exception

C4_FlagIsTheLoadOutcome ==
    \A s \in Sessions :
        Bound(s) =>
            /\ ns[s].model_loaded = (ns[s].artifacts # 0)
            /\ ns[s].model_loaded = ~page[s].load_error
            /\ ns[s].loading = <<>>
            /\ lock # s

C4_RunStep ==
    \A s \in Sessions :
        Bound(s) =>
            /\ pc'[s] \in {"form", "done", "idle"}
            /\ Bound(s)' => ns'[s].model_loaded = ns[s].model_loaded

Raised(s) == invoked[s] # <<>> /\ invoked[s][Len(invoked[s])].out = <<>>

\* C6: when scaler.transform or model.predict raised, the user gets the
\* "prediction unavailable" error element, not the runtime's display of an
\* uncaught exception, and no result box.
C6_FailureSurfacedAsUnavailable ==
    \A s \in Sessions :
        Raised(s) =>
            /\ ~page[s].exception
            /\ page[s].predict_error
            /\ page[s].result = <<>>

C8_PredictStep ==
    \A s \in Sessions :
        (pc[s] = "form" /\ pc'[s] = "done") =>
            /\ UNCHANGED <<files, heap, cache, lock, loadCalls, loadsFailed>>
            /\ ns'[s].model_loaded = ns[s].model_loaded
            /\ ns'[s].artifacts = ns[s].artifacts
            /\ \A t \in Sessions \ {s} :
                   /\ ns'[t] = ns[t]
                   /\ page'[t] = page[t]
                   /\ invoked'[t] = invoked[t]

C8_OnlyTheLoadWrites ==
    (heap' # heap \/ cache' # cache) =>
        \E s \in Sessions :
            /\ pc[s] = "scaler" /\ pc'[s] = "form"
            /\ cache = 0 /\ heap = <<>>

C8_NothingKept ==
    \A s \in Sessions :
        pc[s] \in {"idle", "load", "lock"} =>
            /\ ns[s] = FreshNamespace
            /\ invoked[s] = <<>>
            /\ page[s] = EmptyPage

\* C8: the cached pair and the cache entry are written by nothing but the one
\* load that fills the empty cache; a predict step, successful or rejected,
\* leaves the pair, the cache entry, the lock, the files and the run's flag as
\* they were and touches no other session; when the run is over its request
\* and its results are gone.
C8_PredictWritesNothingShared ==
    /\ [][C8_PredictStep /\ C8_OnlyTheLoadWrites]_vars
    /\ []C8_NothingKept

\* A result has been rendered from the cached pair.
C8_Witness ==
    \E s \in Sessions :
        /\ Showing(s)
        /\ cache = 1
        /\ ns[s].input_df # <<>>

\* ---- C9 (under SpecForm)
\* x and y differ by at most one unit in the last place of y.
WithinOneUlp(x, y) ==
    LET e == IF x.e < y.e THEN x.e ELSE y.e
    IN  Abs(x.m * 2^(x.e - e) - y.m * 2^(y.e - e)) <= 2^(y.e - e)

C9_Conversions(s) ==
    LET raw == ResultOf(s).prediction
        kwh == ResultOf(s).kwh
        kj == ResultOf(s).kilojoules
        day == ResultOf(s).kwh_per_day
        y == invoked[s][2].out
    IN  /\ invoked[s][2].fn = "model.predict"
        /\ raw = y[1]
        /\ ns[s].prediction = <<raw>>
        /\ kwh = FDivInt(raw, 3600000)
        /\ kj = FDivInt(raw, 1000)
        /\ day = FMulInt(kwh, 8)
        /\ day.m = kwh.m
        /\ day.e = (IF kwh.m = 0 THEN 0 ELSE kwh.e + 3)
        /\ Sign(day.m) = Sign(raw.m) /\ Sign(kj.m) = Sign(raw.m)

\* C9 as stated: the raw prediction is the first element of model.predict's
\* output, unclamped; kwh, kilojoules and kwh per day are raw / 3,600,000,
\* raw / 1000 and kwh * 8, unrounded; kilojoules * 1000 gives back raw exactly.
C9_ExactRoundTrip ==
    \A s \in Sessions :
        Showing(s) =>
            /\ C9_Conversions(s)
            /\ FMulInt(ResultOf(s).kilojoules, 1000) = ResultOf(s).prediction

\* C9 amended: as stated, except that kilojoules * 1000 gives back raw only to
\* within one unit in the last place (the division and the multiplication
\* each round).
C9_RoundTripWithinUlp ==
    \A s \in Sessions :
        Showing(s) =>
            /\ C9_Conversions(s)
            /\ WithinOneUlp(FMulInt(ResultOf(s).kilojoules, 1000),
                            ResultOf(s).prediction)

\* A negative prediction rendered unclamped, whose kilojoules do not multiply
\* back to it exactly.
C9_Witness ==
    \E s \in Sessions :
        /\ Showing(s)
        /\ ResultOf(s).prediction.m < 0
        /\ FMulInt(ResultOf(s).kilojoules, 1000) # ResultOf(s).prediction

\* ---- C10
FieldOrder ==
    <<"distance_to_solar_noon", "temperature", "sky_cover", "visibility",
      "humidity", "wind_speed">>

FieldValue(w, name) ==
    CASE name = "distance_to_solar_noon" -> w.distance_to_solar_noon
      [] name = "temperature" -> w.temperature
      [] name = "sky_cover" -> w.sky_cover
      [] name = "visibility" -> w.visibility
      [] name = "humidity" -> w.humidity
      [] name = "wind_speed" -> w.wind_speed

\* C10: every predict action calls scaler.transform first, on one row whose
\* six columns are, in this order, distance_to_solar_noon, temperature,
\* sky_cover, visibility, humidity, wind_speed with the same-named widget's
\* value, and then model.predict on what scaler.transform returned, not on
\* the row itself.
C10_RecordOrderAndPipeline ==
    \A s \in Sessions :
        /\ (pc[s] = "done" /\ ns[s].predict_clicked /\ ns[s].model_loaded) =>
               invoked[s] # <<>>
        /\ invoked[s] # <<>> =>
               LET first == invoked[s][1]
                   row == first.arg[1]
               IN  /\ first.fn = "scaler.transform"
                   /\ Len(first.arg) = 1
                   /\ Len(row) = 6
                   /\ ns[s].input_df = <<first.arg>>
                   /\ \A j \in 1..6 :
                          row[j] = <<FieldOrder[j],
                                     FieldValue(FormOf(s), FieldOrder[j])>>
                   /\ Len(invoked[s]) <= 2
                   /\ Len(invoked[s]) = 2 =>
                          /\ invoked[s][2].fn = "model.predict"
                          /\ invoked[s][2].arg = first.out
                          /\ invoked[s][2].arg[1] # [j \in 1..6 |-> row[j][2]]

\* A run that has called scaler.transform and then model.predict.
C10_Witness ==
    \E s \in Sessions :
        /\ Len(invoked[s]) = 2
        /\ invoked[s][2].out # <<>>
        /\ FormOf(s) # DefaultForm

====
